---------------------------- MODULE Spec2Model ----------------------------
(***************************************************************************)
(* Model of the pgbitmapfont package: the two font variants                *)
(* (BitmapFontFixedHeight, BitmapFontFreeDims), their construction from a  *)
(* descriptor and an atlas image, and the text operations render, get_rect *)
(* and get_metrics; and of the grid resolution of the extractor tool.      *)
(*                                                                         *)
(* Strings are sequences of one-character strings.  The line break is the  *)
(* one-character string NL.  Python's float arithmetic (size / height and  *)
(* int(value * scale)) is modelled bit-exactly as IEEE-754 binary64 with   *)
(* round-to-nearest-even.  The pixels of a surface are followed by colour: *)
(* a surface is the map from the colour a pixel has in the atlas file to   *)
(* the colour that pixel has now.  The pixel specification follows small   *)
(* surfaces pixel by pixel instead.                                        *)
(***************************************************************************)
EXTENDS Integers, Sequences, FiniteSets, TLC

(***************************************************************************)
(* Bounds of the model.                                                    *)
(***************************************************************************)
\* longest text passed to render / get_rect / get_metrics
MaxLen == 3
\* largest horizontal and vertical spacing a font is built with
MaxSpacing == 1
\* natural height of the atlases of the text specification
AtlasHeight == 11
\* largest natural height and largest requested size of SpecScale
MaxHeight == 12
MaxSize == 16
\* the widest image the extractor tool is started on
MaxImage == 33

(***************************************************************************)
(* IEEE-754 binary64 arithmetic on positive values, round to nearest, ties *)
(* to even.  A float is [m |-> <<l1, l2, l3, l4>>, e |-> k]: the 53-bit    *)
(* significand is the leading 1 followed by four 13-bit limbs, and the     *)
(* value is (1.l1 l2 l3 l4 in binary) * 2^k.  Operands stay below 2^12.    *)
(***************************************************************************)
RECURSIVE Pow2(_)
Pow2(n) == IF n = 0 THEN 1 ELSE 2 * Pow2(n - 1)

Limb == Pow2(13)

\* largest k >= 0 with d * 2^k <= n   (n >= d >= 1)
RECURSIVE Log2Up(_, _)
Log2Up(n, d) == IF 2 * d <= n THEN 1 + Log2Up(n, 2 * d) ELSE 0

\* smallest k >= 0 with n * 2^k >= d   (n, d >= 1)
RECURSIVE Log2Down(_, _)
Log2Down(n, d) == IF n >= d THEN 0 ELSE 1 + Log2Down(2 * n, d)

\* the significand plus one unit in the last place
IncMant(m, e) ==
    IF m[4] + 1 < Limb THEN [m |-> <<m[1], m[2], m[3], m[4] + 1>>, e |-> e]
    ELSE IF m[3] + 1 < Limb THEN [m |-> <<m[1], m[2], m[3] + 1, 0>>, e |-> e]
    ELSE IF m[2] + 1 < Limb THEN [m |-> <<m[1], m[2] + 1, 0, 0>>, e |-> e]
    ELSE IF m[1] + 1 < Limb THEN [m |-> <<m[1] + 1, 0, 0, 0>>, e |-> e]
    ELSE [m |-> <<0, 0, 0, 0>>, e |-> e + 1]

\* round the significand m, given the first discarded bit (guard) and whether
\* any later discarded bit is set (sticky)
RoundNearestEven(m, e, guard, sticky) ==
    IF guard = 1 /\ (sticky \/ (m[4] % 2) = 1) THEN IncMant(m, e)
    ELSE [m |-> m, e |-> e]

\* Python's n / d for positive ints: the correctly rounded quotient, by long
\* division of n * 2^down by d * 2^up (a quotient in [1, 2)), 13 bits a step
FDiv(n, d) ==
    LET up   == IF n >= d THEN Log2Up(n, d) ELSE 0
        down == IF n >= d THEN 0 ELSE Log2Down(n, d)
        nn   == n * Pow2(down)
        dd   == d * Pow2(up)
        r0   == nn - dd
        r1   == (r0 * Limb) % dd
        r2   == (r1 * Limb) % dd
        r3   == (r2 * Limb) % dd
        r4   == (r3 * Limb) % dd
    IN  RoundNearestEven(<<(r0 * Limb) \div dd, (r1 * Limb) \div dd,
                           (r2 * Limb) \div dd, (r3 * Limb) \div dd>>,
                         up - down, (2 * r4) \div dd, ((2 * r4) % dd) # 0)

\* number of bits of t >= 1, less one
RECURSIVE BitLen(_)
BitLen(t) == IF t < 2 THEN 0 ELSE 1 + BitLen(t \div 2)

\* Python's w * f for an int 1 <= w < 2^12 and a float f: the exact product
\* limb by limb, shifted right to 53 bits and rounded
FMulInt(w, f) ==
    LET t4  == w * f.m[4]
        t3  == (w * f.m[3]) + (t4 \div Limb)
        t2  == (w * f.m[2]) + (t3 \div Limb)
        t1  == (w * f.m[1]) + (t2 \div Limb)
        top == w + (t1 \div Limb)
        sh  == BitLen(top)
        p   == Pow2(sh)
        lo  == (t4 % Limb) % p
        n1  == (((top % p) * Limb) + (t1 % Limb)) \div p
        n2  == ((((t1 % Limb) % p) * Limb) + (t2 % Limb)) \div p
        n3  == ((((t2 % Limb) % p) * Limb) + (t3 % Limb)) \div p
        n4  == ((((t3 % Limb) % p) * Limb) + (t4 % Limb)) \div p
    IN  IF sh = 0 THEN [m |-> <<n1, n2, n3, n4>>, e |-> f.e]
        ELSE RoundNearestEven(<<n1, n2, n3, n4>>, f.e + sh,
                              lo \div Pow2(sh - 1), (lo % Pow2(sh - 1)) # 0)

\* Python's int(f): truncation toward zero (for values below 2^27)
FTrunc(f) ==
    IF f.e < 0 THEN 0
    ELSE IF f.e <= 13 THEN Pow2(f.e) + (f.m[1] \div Pow2(13 - f.e))
    ELSE ((Limb + f.m[1]) * Pow2(f.e - 13)) + (f.m[2] \div Pow2(26 - f.e))

\* the size argument left at its default, None (sizes proper are >= 1)
NoSize == 0

\* a scaling that rounds the exact product up
ScaleIntCeiling(v, size, natural) ==
    IF size = NoSize THEN v
    ELSE ((v * size) + natural - 1) \div natural

\* int(v * scale) with scale = 1 if size is None else size / natural
ScaleInt(v, size, natural) ==
    IF size = NoSize THEN v
    ELSE IF v = 0 THEN 0
    ELSE FTrunc(FMulInt(v, FDiv(size, natural)))

(***************************************************************************)
(* Characters, colours and descriptors.                                    *)
(***************************************************************************)
NL == "\n"

\* the characters texts are built from: "?" and "_" may be absent from a font
TextChars == {"A", "B", "?", NL}

\* fgcolor / color argument not given (None)
NoColor == "None"

\* the align tokens render knows, and one it does not
Aligns == {"LEFT", "RIGHT", "CENTER", "CENTRE", "JUSTIFY"}

\* row 0 of a fixed-height atlas: each glyph's columns in the background
\* colour followed by one separator column, then trailing columns
RECURSIVE AtlasRow(_, _, _, _)
AtlasRow(widths, trailing, bg, sep) ==
    IF widths = <<>> THEN [i \in 1..trailing |-> bg]
    ELSE [i \in 1..Head(widths) |-> bg] \o <<sep>>
         \o AtlasRow(Tail(widths), trailing, bg, sep)

\* the colours of the pixels of an atlas file: the glyphs' own colour, the
\* background, the separator pixels, and one more colour of textured glyphs
Palette == {"white", "black", "grey", "blue"}

\* the surface pygame.image.load returns: every pixel as in the file
LoadedImage == [p \in Palette |-> p]

\* a fixed-height descriptor (the JSON file) together with its atlas image:
\* file and image tell whether the two files exist, keys which keys the JSON
\* object has, order_kind the JSON type of character_order
FixedDescriptor(widths, trailing, height, order) ==
    [variant         |-> "fixed",
     file            |-> "present",
     image           |-> "present",
     keys            |-> {"font_image", "font_color", "colorkey",
                          "separator_color", "character_order"},
     font_color      |-> "white",
     colorkey        |-> "black",
     separator_color |-> "grey",
     order_kind      |-> "list",
     character_order |-> order,
     spacing         |-> <<0, 0>>,
     img_row0        |-> AtlasRow(widths, trailing, "black", "grey"),
     img_height      |-> height]

\* a free-dimension descriptor: chars is the JSON object in file order, and
\* chars_kind the JSON type of chars
FreeDescriptor(chars, height) ==
    [variant    |-> "free",
     file       |-> "present",
     image      |-> "present",
     keys       |-> {"font_image", "colorkey", "chars"},
     colorkey   |-> "black",
     chars_kind |-> "dict",
     chars      |-> chars,
     spacing    |-> <<0, 0>>,
     img_width  |-> 32,
     img_height |-> height]

Glyph(ch, x, y, w, h) == [ch |-> ch, x |-> x, y |-> y, width |-> w, height |-> h]

\* the atlases of the text specification: glyphs "A" (also "a") and "B" of
\* widths 10 and 12, a zero-width glyph, fewer separators than
\* character_order entries, none at all, and one too many
FixedDescriptors(height) ==
    { FixedDescriptor(ws, 2, height, << <<"A", "a">>, <<"B">>, <<"_">> >>) :
        ws \in { <<10, 12, 3>>, <<0, 12>>, <<10>>, <<>>, <<10, 12, 3, 1>> } }

FreeDescriptors(height) ==
    { FreeDescriptor(cs, height) :
        cs \in { << Glyph("A", 0, 0, 10, height), Glyph("B", 10, 0, 12, height - 2),
                    Glyph("_", 22, 2, 3, height - 1) >>,
                 << Glyph("B", 0, 0, 0, height - 1), Glyph("A", 0, 1, 10, height) >> } }

(***************************************************************************)
(* Construction.                                                           *)
(***************************************************************************)
Failed(err) == [status |-> "error", error |-> err]

\* a glyph record whose x is the separator's column
CloseGlyphAtSeparator(chars, entry, x, cur, size, height) ==
    [c \in DOMAIN chars \cup {entry[i] : i \in 1..Len(entry)} |->
        IF c \in {entry[i] : i \in 1..Len(entry)}
        THEN [x      |-> ScaleInt(x, size, height),
              y      |-> 0,
              width  |-> ScaleInt(cur, size, height),
              height |-> ScaleInt(height, size, height)]
        ELSE chars[c]]

\* the dict self.characters after one separator column at x closes the glyph
\* of width cur: one record per character of the character_order entry
CloseGlyph(chars, entry, x, cur, size, height) ==
    [c \in DOMAIN chars \cup {entry[i] : i \in 1..Len(entry)} |->
        IF c \in {entry[i] : i \in 1..Len(entry)}
        THEN [x      |-> ScaleInt(x - cur, size, height),
              y      |-> 0,
              width  |-> ScaleInt(cur, size, height),
              height |-> ScaleInt(height, size, height)]
        ELSE chars[c]]

\* the locals of the column scan before column 0: x, current_char_width
\* (width), character_count (count) and the dict self.characters
ScanStart == [x |-> 0, width |-> 0, count |-> 0, characters |-> <<>>, error |-> "none"]

\* a loop body that also counts the separator column into the running width
ScanStepCountingSeparator(row0, sep, order, size, height, s) ==
    IF row0[s.x + 1] = sep
    THEN IF s.count >= Len(order)
         THEN [s EXCEPT !.error = "IndexError"]
         ELSE [s EXCEPT !.x = @ + 1, !.width = 1, !.count = @ + 1,
                        !.characters = CloseGlyph(@, order[s.count + 1], s.x,
                                                  s.width, size, height)]
    ELSE [s EXCEPT !.x = @ + 1, !.width = @ + 1]

\* one iteration of the column scan, at column s.x (0-based) of row 0
ScanStep(row0, sep, order, size, height, s) ==
    IF row0[s.x + 1] = sep
    THEN IF s.count >= Len(order)
         THEN [s EXCEPT !.error = "IndexError"]
         ELSE [s EXCEPT !.x = @ + 1, !.width = 0, !.count = @ + 1,
                        !.characters = CloseGlyph(@, order[s.count + 1], s.x,
                                                  s.width, size, height)]
    ELSE [s EXCEPT !.x = @ + 1, !.width = @ + 1]

\* the column scan of row 0, from the locals s on
RECURSIVE ScanColumns(_, _, _, _, _, _)
ScanColumns(row0, sep, order, size, height, s) ==
    IF s.x >= Len(row0) \/ s.error # "none" THEN s
    ELSE ScanColumns(row0, sep, order, size, height,
                     ScanStep(row0, sep, order, size, height, s))

\* color_swap: every pixel of old_color becomes new_color, the others stay
ColorSwap(surf, old_color, new_color) ==
    [p \in DOMAIN surf |-> IF surf[p] = old_color THEN new_color ELSE surf[p]]

\* a font_data.get('colorkey', ...) whose default is white
ColorKeyOfWhite(d) == IF "colorkey" \in d.keys THEN d.colorkey ELSE "white"

\* font_data.get('colorkey', '#000000')
ColorKeyOf(d) == IF "colorkey" \in d.keys THEN d.colorkey ELSE "black"

\* BitmapFontFixedHeight.__init__ ("ColorError" is the exception
\* pygame.Color(None) raises when font_color is absent and no fgcolor is
\* asked for; it is not an AssertionError, so it leaves the constructor).
\* img_colorkey is the colour-key of the surface font_img: the one set by
\* set_colorkey, or none on the new surface color_swap returns; the scaled
\* copy keeps it
FixedInit(d, size, fgcolor, spacing, default_char) ==
    IF d.file = "absent" THEN Failed("FileNotFoundError")
    ELSE IF "font_image" \notin d.keys \/ d.image = "absent" THEN Failed("ValueError")
    ELSE IF fgcolor # NoColor /\ "font_color" \notin d.keys THEN Failed("ValueError")
    ELSE IF "font_color" \notin d.keys THEN Failed("ColorError")
    ELSE LET colorkey == ColorKeyOf(d)
         IN
         IF d.font_color = colorkey THEN Failed("ValueError")
         ELSE IF "separator_color" \notin d.keys THEN Failed("ValueError")
         ELSE IF "character_order" \notin d.keys THEN Failed("ValueError")
         ELSE IF d.order_kind # "list" THEN Failed("ValueError")
         ELSE IF ~(Len(d.character_order) > 1) THEN Failed("ValueError")
         ELSE LET scan == ScanColumns(d.img_row0, d.separator_color, d.character_order,
                                      size, d.img_height, ScanStart)
              IN
              IF scan.error # "none" THEN Failed(scan.error)
              ELSE IF default_char \notin DOMAIN scan.characters
                      /\ d.character_order[1] = <<>> THEN Failed("IndexError")
              ELSE [status       |-> "ok",
                    variant      |-> "fixed",
                    spacing      |-> spacing,
                    font_color   |-> d.font_color,
                    colorkey     |-> colorkey,
                    font_height  |-> ScaleInt(d.img_height, size, d.img_height),
                    characters   |-> scan.characters,
                    default_char |-> IF default_char \in DOMAIN scan.characters
                                     THEN default_char
                                     ELSE d.character_order[1][1],
                    font_img     |-> IF fgcolor # NoColor
                                     THEN ColorSwap(LoadedImage, d.font_color, fgcolor)
                                     ELSE LoadedImage,
                    img_colorkey |-> IF fgcolor # NoColor THEN NoColor ELSE colorkey,
                    img_width    |-> ScaleInt(Len(d.img_row0), size, d.img_height),
                    img_height   |-> ScaleInt(d.img_height, size, d.img_height)]

\* max(...) over a non-empty sequence of ints
RECURSIVE MaxOf(_)
MaxOf(s) == IF Len(s) = 1 THEN s[1]
            ELSE LET m == MaxOf(Tail(s)) IN IF s[1] >= m THEN s[1] ELSE m

\* BitmapFontFreeDims.__init__
FreeInit(d, size, spacing, default_char) ==
    IF d.file = "absent" THEN Failed("FileNotFoundError")
    ELSE IF "font_image" \notin d.keys THEN Failed("KeyError")
    ELSE IF d.image = "absent" THEN Failed("AssertionError")
    ELSE IF "chars" \notin d.keys THEN Failed("KeyError")
    ELSE IF d.chars_kind = "int" THEN Failed("TypeError")
    ELSE IF d.chars = <<>> THEN Failed("ValueError")
    ELSE IF d.chars_kind = "list" THEN Failed("TypeError")
    ELSE LET natural == MaxOf([i \in 1..Len(d.chars) |-> d.chars[i].height])
             names   == {d.chars[i].ch : i \in 1..Len(d.chars)}
             entry(c) == d.chars[CHOOSE i \in 1..Len(d.chars) : d.chars[i].ch = c]
         IN  [status       |-> "ok",
              variant      |-> "free",
              spacing      |-> spacing,
              colorkey     |-> ColorKeyOf(d),
              font_height  |-> ScaleInt(natural, size, natural),
              characters   |-> [c \in names |->
                                  [x      |-> ScaleInt(entry(c).x, size, natural),
                                   y      |-> ScaleInt(entry(c).y, size, natural),
                                   width  |-> ScaleInt(entry(c).width, size, natural),
                                   height |-> ScaleInt(entry(c).height, size, natural)]],
              default_char |-> IF default_char \in names THEN default_char
                               ELSE d.chars[1].ch,
              font_img     |-> LoadedImage,
              img_colorkey |-> ColorKeyOf(d),
              img_width    |-> ScaleInt(d.img_width, size, natural),
              img_height   |-> ScaleInt(d.img_height, size, natural)]

(***************************************************************************)
(* Text metrics and rendering.  KeyError and the other exceptions are      *)
(* outcomes: a result is [status |-> "ok", ...] or [status |-> <error>].   *)
(***************************************************************************)
Raised(err) == [status |-> err]

\* text.split('\n'): the rows of a text, an empty text being one empty row
RECURSIVE SplitRows(_, _, _)
SplitRows(text, cur, rows) ==
    IF text = <<>> THEN Append(rows, cur)
    ELSE IF Head(text) = NL THEN SplitRows(Tail(text), <<>>, Append(rows, cur))
    ELSE SplitRows(Tail(text), Append(cur, Head(text)), rows)

Split(text) == SplitRows(text, <<>>, <<>>)

\* self.characters[char] raises KeyError for some char of the text
HasUnmapped(f, text) == \E i \in 1..Len(text) : text[i] \notin DOMAIN f.characters

RECURSIVE SumWidths(_, _)
SumWidths(f, text) ==
    IF text = <<>> THEN 0 ELSE f.characters[Head(text)].width + SumWidths(f, Tail(text))

\* a _get_text_width that charges the spacing only between characters
GetTextWidthBetween(f, text) ==
    SumWidths(f, text) + (f.spacing[1] * (IF text = <<>> THEN 0 ELSE Len(text) - 1))

\* a _get_text_width that leaves the spacing out
GetTextWidthNoSpacing(f, text) == SumWidths(f, text)

\* _get_text_width, for a text whose characters are all mapped
GetTextWidth(f, text) == SumWidths(f, text) + (f.spacing[1] * Len(text))

\* a _get_text_height that charges the vertical spacing itself
GetTextHeightWithSpacing(f) == f.font_height + f.spacing[2]

\* _get_text_height
GetTextHeight(f) == f.font_height

\* _substitute_unsuported_chars
Substitute(f, text) ==
    [i \in 1..Len(text) |->
        IF text[i] \in DOMAIN f.characters THEN text[i] ELSE f.default_char]

\* the x_offset of every glyph blitted by the loop of _render_row
RECURSIVE BlitOffsets(_, _, _)
BlitOffsets(f, text, x_offset) ==
    IF text = <<>> THEN <<>>
    ELSE <<x_offset>> \o BlitOffsets(f, Tail(text),
                x_offset + f.characters[Head(text)].width + f.spacing[1])

\* _render_row: the row surface (its size and where each glyph was blitted)
RenderRow(f, row_text) ==
    LET text == Substitute(f, row_text)
    IN  IF HasUnmapped(f, text) THEN Raised("KeyError")
        ELSE [status  |-> "ok",
              text    |-> text,
              width   |-> GetTextWidth(f, text),
              height  |-> GetTextHeight(f),
              offsets |-> BlitOffsets(f, text, 0)]

\* get_metrics of BitmapFontFixedHeight
FixedGetMetrics(f, text) ==
    IF HasUnmapped(f, text) THEN Raised("KeyError")
    ELSE LET y == f.font_height + f.spacing[2]
         IN  [status  |-> "ok",
              returns |-> "list",
              value   |-> [i \in 1..Len(text) |->
                             LET x == f.characters[text[i]].width + f.spacing[1]
                             IN  <<x, x, y, y, x, y>>]]

\* get_metrics of BitmapFontFreeDims: the class defines none and inherits
\* BitmapFontProtocol.get_metrics, whose body is pass
ProtocolGetMetrics(f, text) == [status |-> "ok", returns |-> "None"]

GetMetrics(f, text) ==
    IF f.variant = "fixed" THEN FixedGetMetrics(f, text) ELSE ProtocolGetMetrics(f, text)

\* get_rect (the same code in both classes)
GetRect(f, text) ==
    LET rows == Split(text)
    IN  IF \E i \in 1..Len(rows) : HasUnmapped(f, Substitute(f, rows[i]))
        THEN Raised("KeyError")
        ELSE [status |-> "ok",
              rect   |-> <<0, 0,
                           MaxOf([i \in 1..Len(rows) |->
                                    GetTextWidth(f, Substitute(f, rows[i]))]),
                           (GetTextHeight(f) + f.spacing[2]) * Len(rows)>>]

\* the first loop of render: max_width after the row surfaces row_surfs
RECURSIVE MaxWidthLoop(_, _)
MaxWidthLoop(row_surfs, max_width) ==
    IF row_surfs = <<>> THEN max_width
    ELSE MaxWidthLoop(Tail(row_surfs),
                      IF max_width >= Head(row_surfs).width THEN max_width
                      ELSE Head(row_surfs).width)

\* a horizontal alignment that centres a row half a pixel further right
XAlignRoundedUp(align, max_width, row_width) ==
    IF align = "LEFT" THEN 0
    ELSE IF align = "RIGHT" THEN max_width - row_width
    ELSE IF align \in {"CENTER", "CENTRE"} THEN (max_width - row_width + 1) \div 2
    ELSE 0

\* the horizontal alignment of one row surface
XAlign(align, max_width, row_width) ==
    IF align = "LEFT" THEN 0
    ELSE IF align = "RIGHT" THEN max_width - row_width
    ELSE IF align \in {"CENTER", "CENTRE"} THEN (max_width - row_width) \div 2
    ELSE 0

\* the part of render after its first loop: the final surface made of the
\* row surfaces row_surfs
Compose(f, row_surfs, align) ==
    LET max_width == MaxWidthLoop(row_surfs, 0)
        height    == (GetTextHeight(f) + f.spacing[2]) * Len(row_surfs)
    IN  [status   |-> "ok",
         surface  |-> [width |-> max_width, height |-> height,
                       colorkey |-> f.colorkey],
         blits    |-> [i \in 1..Len(row_surfs) |->
                         <<XAlign(align, max_width, row_surfs[i].width),
                           (i - 1) * (GetTextHeight(f) + f.spacing[2])>>],
         pixels   |-> f.font_img,
         rect     |-> <<0, 0, max_width, height>>]

\* the body of render after the assertion on fgcolor (the same in both classes)
RenderRows(f, text, align) ==
    LET rows      == Split(text)
        row_surfs == [i \in 1..Len(rows) |-> RenderRow(f, rows[i])]
    IN  IF \E i \in 1..Len(rows) : row_surfs[i].status # "ok" THEN Raised("KeyError")
        ELSE Compose(f, row_surfs, align)

\* the colour substitution of render on the final surface out
Recoloured(f, out, fgcolor) ==
    IF out.status = "ok" /\ fgcolor # NoColor
    THEN [out EXCEPT !.pixels = ColorSwap(@, f.font_color, fgcolor)]
    ELSE out

\* BitmapFontFixedHeight.render(text, fgcolor, align): the glyph pixels of
\* the final surface are those of font_img, with font_color swapped for
\* fgcolor when one is given
FixedRender(f, text, fgcolor, align) ==
    IF fgcolor = f.colorkey THEN Raised("AssertionError")
    ELSE Recoloured(f, RenderRows(f, text, align), fgcolor)

\* BitmapFontFreeDims.render(text, align): it has no colour parameter, so a
\* colour passed by keyword is a TypeError and a colour passed by position
\* is bound to align
FreeRender(f, text, fgcolor, align, form) ==
    IF fgcolor = NoColor THEN RenderRows(f, text, align)
    ELSE IF form = "keyword" THEN Raised("TypeError")
    ELSE RenderRows(f, text, fgcolor)

(***************************************************************************)
(* The state: the constructor call made (ctor), the font object it left    *)
(* (font), and the last call on the font with its outcome (res); the       *)
(* column scan of a fixed-height constructor followed column by column     *)
(* (scan); the calls two concurrent callers have in progress on the font   *)
(* (calls); and the extractor tool's main loop (tool).                     *)
(***************************************************************************)
VARIABLES ctor, font, res, scan, calls, tool

vars == <<ctor, font, res, scan, calls, tool>>

\* the callers that share one font
Callers == {1, 2}

Init ==
    /\ ctor = [variant |-> "none"]
    /\ font = [status |-> "none"]
    /\ res = [op |-> "none"]
    /\ scan = [status |-> "none"]
    /\ calls = [c \in Callers |-> [pc |-> "idle"]]
    /\ tool = [status |-> "none"]

\* (horizontal, vertical) spacings: every horizontal one up to MaxSpacing, with
\* no vertical spacing and with the largest
Spacings == (0..MaxSpacing) \X {0, MaxSpacing}

\* the sizes of the text specification: native, and a scaled one
TextSizes == {NoSize, 15}

\* font = BitmapFontFixedHeight(path, size, fgcolor, spacing, default_char)
NewFixed(descriptors, sizes, spacings) ==
    /\ ctor.variant = "none"
    /\ \E d \in descriptors, size \in sizes, spacing \in spacings,
          default_char \in {"_", "B"} :
          /\ ctor' = [variant |-> "fixed", descriptor |-> d, size |-> size,
                      spacing |-> spacing, default_char |-> default_char]
          /\ font' = FixedInit(d, size, NoColor, spacing, default_char)
    /\ UNCHANGED <<res, scan, calls, tool>>

\* font = BitmapFontFreeDims(path, size, spacing, default_char)
NewFree(descriptors, sizes, spacings) ==
    /\ ctor.variant = "none"
    /\ \E d \in descriptors, size \in sizes, spacing \in spacings,
          default_char \in {"_", "B"} :
          /\ ctor' = [variant |-> "free", descriptor |-> d, size |-> size,
                      spacing |-> spacing, default_char |-> default_char]
          /\ font' = FreeInit(d, size, spacing, default_char)
    /\ UNCHANGED <<res, scan, calls, tool>>

ConstructFixed == NewFixed(FixedDescriptors(AtlasHeight), TextSizes, Spacings)

ConstructFree == NewFree(FreeDescriptors(AtlasHeight), TextSizes, Spacings)

\* the texts of at most MaxLen characters
Texts == UNION {[1..n -> TextChars] : n \in 0..MaxLen}

\* the colours a render call asks for: the colour-key of the fonts and another
RenderColors == {"black", "red"}

\* the ways a render call passes its arguments: render(text, align=a),
\* render(text, fgcolor=c, align=a) and render(text, c)
RenderCalls ==
    { [form |-> "keyword", fgcolor |-> c, align |-> a] :
        c \in {NoColor} \cup RenderColors, a \in Aligns }
    \cup { [form |-> "positional", fgcolor |-> c, align |-> "LEFT"] : c \in RenderColors }

\* font.render(...)
Render ==
    /\ font.status = "ok"
    /\ res.op = "none"
    /\ \E text \in Texts, call \in RenderCalls :
          res' = [op |-> "render", text |-> text, call |-> call,
                  out |-> IF font.variant = "fixed"
                          THEN FixedRender(font, text, call.fgcolor, call.align)
                          ELSE FreeRender(font, text, call.fgcolor, call.align,
                                          call.form)]
    /\ UNCHANGED <<ctor, font, scan, calls, tool>>

\* font.get_rect(text)
GetRectCall ==
    /\ font.status = "ok"
    /\ res.op = "none"
    /\ \E text \in Texts :
          res' = [op |-> "get_rect", text |-> text, out |-> GetRect(font, text)]
    /\ UNCHANGED <<ctor, font, scan, calls, tool>>

\* font.get_metrics(text)
GetMetricsCall ==
    /\ font.status = "ok"
    /\ res.op = "none"
    /\ \E text \in Texts :
          res' = [op |-> "get_metrics", text |-> text, out |-> GetMetrics(font, text)]
    /\ UNCHANGED <<ctor, font, scan, calls, tool>>

\* the caller takes the result (or catches the exception) of the last call
Return ==
    /\ res.op # "none"
    /\ res' = [op |-> "none"]
    /\ UNCHANGED <<ctor, font, scan, calls, tool>>

Next == ConstructFixed \/ ConstructFree \/ Render \/ GetRectCall \/ GetMetricsCall \/ Return

Spec == Init /\ [][Next]_vars

(***************************************************************************)
(* The scaling specification: fonts of every natural height up to          *)
(* MaxHeight built with every size up to MaxSize, and with none.           *)
(***************************************************************************)
ScaleSizes == {NoSize} \cup (1..MaxSize)

\* two glyphs, and three with a zero-width one and two names for the first
ScaleFixedDescriptors ==
    { FixedDescriptor(<<2, 3>>, 1, h, << <<"A">>, <<"B">> >>) : h \in 1..MaxHeight }
    \cup { FixedDescriptor(<<7, 0, 5>>, 2, h, << <<"A", "a">>, <<"B">>, <<"_">> >>) :
              h \in 1..MaxHeight }

\* a tall glyph with one about half as high, and a font of height 22 with a
\* glyph one pixel lower
ScaleFreeDescriptors ==
    { FreeDescriptor(<< Glyph("A", 0, 0, 2, h), Glyph("B", 2, 0, 3, (h + 1) \div 2) >>, h) :
        h \in 1..MaxHeight }
    \cup { FreeDescriptor(<< Glyph("A", 0, 0, 2, 22), Glyph("B", 2, 1, 3, 21) >>, 22) }

ConstructFixedScaled == NewFixed(ScaleFixedDescriptors, ScaleSizes, {<<0, 0>>})

ConstructFreeScaled == NewFree(ScaleFreeDescriptors, ScaleSizes, {<<0, 0>>})

NextScale == ConstructFixedScaled \/ ConstructFreeScaled

SpecScale == Init /\ [][NextScale]_vars

(***************************************************************************)
(* The loading specification: a font built by either class or by the       *)
(* factory BitmapFont, from well-formed and from ill-formed descriptors,   *)
(* with every argument given or left at its default; then rendered in a    *)
(* colour.                                                                 *)
(***************************************************************************)
\* the spacing argument left at its default
NoSpacing == <<>>

\* default_char = None
NoChar == "None"

\* the spacing parameter's default of each callable
FixedDefaultSpacing == <<1, 1>>

FreeDefaultSpacing == <<0, 0>>

FactoryDefaultSpacing == <<0, 0>>

\* BitmapFontFixedHeight(path, size=, fgcolor=, spacing=, default_char=)
FixedHeightCall(d, a) ==
    FixedInit(d, a.size, a.fgcolor,
              IF a.spacing = NoSpacing THEN FixedDefaultSpacing ELSE a.spacing,
              a.default_char)

\* BitmapFontFreeDims(path, size=, spacing=, default_char=)
FreeDimsCall(d, a) ==
    FreeInit(d, a.size,
             IF a.spacing = NoSpacing THEN FreeDefaultSpacing ELSE a.spacing,
             a.default_char)

\* BitmapFont(path, size=, spacing=, fgcolor=, default_char=): __new__ hands
\* fgcolor to the __init__ of either class by keyword, and that of
\* BitmapFontFreeDims has no such parameter
BitmapFontNew(d, a) ==
    IF d.file = "absent" THEN Failed("FileNotFoundError")
    ELSE IF "character_order" \in d.keys
         THEN FixedInit(d, a.size, a.fgcolor,
                        IF a.spacing = NoSpacing THEN FactoryDefaultSpacing
                        ELSE a.spacing,
                        a.default_char)
         ELSE Failed("TypeError")

\* the well-formed fixed-height descriptor
GoodFixed == FixedDescriptor(<<10, 12, 3>>, 2, AtlasHeight, << <<"A", "a">>, <<"B">>, <<"_">> >>)

\* the well-formed free-dimension descriptor
GoodFree ==
    FreeDescriptor(<< Glyph("A", 0, 0, 10, AtlasHeight), Glyph("B", 10, 0, 12, AtlasHeight - 2),
                      Glyph("_", 22, 2, 3, AtlasHeight - 1) >>, AtlasHeight)

Without(d, key) == [d EXCEPT !.keys = @ \ {key}]

\* fixed-height descriptors: well-formed ones (one with a spacing field, one
\* whose atlas has no separator pixel), and ones with a file, a key or a
\* value at fault
LoadFixedDescriptors ==
    { GoodFixed,
      [GoodFixed EXCEPT !.keys = @ \cup {"spacing"}, !.spacing = <<2, 3>>],
      FixedDescriptor(<<>>, 2, AtlasHeight, << <<"A", "a">>, <<"B">>, <<"_">> >>),
      [GoodFixed EXCEPT !.file = "absent"],
      [GoodFixed EXCEPT !.image = "absent"],
      Without(GoodFixed, "font_image"),
      Without(GoodFixed, "font_color"),
      Without(GoodFixed, "colorkey"),
      Without([GoodFixed EXCEPT !.font_color = "black"], "colorkey"),
      [GoodFixed EXCEPT !.font_color = "grey", !.colorkey = "grey"],
      Without(GoodFixed, "separator_color"),
      Without(GoodFixed, "character_order"),
      [GoodFixed EXCEPT !.order_kind = "str"],
      FixedDescriptor(<<10, 12, 3>>, 2, AtlasHeight, <<>>),
      FixedDescriptor(<<10>>, 2, AtlasHeight, << <<"A", "a">> >>) }

\* free-dimension descriptors, likewise
LoadFreeDescriptors ==
    { GoodFree,
      [GoodFree EXCEPT !.keys = @ \cup {"spacing"}, !.spacing = <<2, 3>>],
      Without(GoodFree, "colorkey"),
      [GoodFree EXCEPT !.file = "absent"],
      [GoodFree EXCEPT !.image = "absent"],
      Without(GoodFree, "font_image"),
      Without(GoodFree, "chars"),
      [GoodFree EXCEPT !.chars = <<>>],
      [GoodFree EXCEPT !.chars_kind = "list"],
      [GoodFree EXCEPT !.chars_kind = "list", !.chars = <<>>],
      [GoodFree EXCEPT !.chars_kind = "int"] }

\* the colours a constructor is asked for: none, a colour, the colour-key
LoadColors == {NoColor, "red", "black"}

\* the arguments of a constructor call
LoadArgs ==
    [size         : TextSizes,
     fgcolor      : LoadColors,
     spacing      : {NoSpacing, <<0, 0>>, <<MaxSpacing, MaxSpacing>>},
     default_char : {"_", "B", NoChar}]

\* font = BitmapFontFixedHeight(path, ...)
LoadFixed ==
    /\ ctor.variant = "none"
    /\ \E d \in LoadFixedDescriptors, a \in LoadArgs :
          /\ ctor' = [variant |-> "fixed", via |-> "class", descriptor |-> d,
                      size |-> a.size, fgcolor |-> a.fgcolor, spacing |-> a.spacing,
                      default_char |-> a.default_char]
          /\ font' = FixedHeightCall(d, a)
    /\ UNCHANGED <<res, scan, calls, tool>>

\* font = BitmapFontFreeDims(path, ...), which takes no fgcolor
LoadFree ==
    /\ ctor.variant = "none"
    /\ \E d \in LoadFreeDescriptors, a \in LoadArgs :
          /\ a.fgcolor = NoColor
          /\ ctor' = [variant |-> "free", via |-> "class", descriptor |-> d,
                      size |-> a.size, fgcolor |-> a.fgcolor, spacing |-> a.spacing,
                      default_char |-> a.default_char]
          /\ font' = FreeDimsCall(d, a)
    /\ UNCHANGED <<res, scan, calls, tool>>

\* font = BitmapFont(path, ...)
LoadFactory ==
    /\ ctor.variant = "none"
    /\ \E d \in LoadFixedDescriptors \cup LoadFreeDescriptors, a \in LoadArgs :
          /\ ctor' = [variant |-> IF "character_order" \in d.keys THEN "fixed" ELSE "free",
                      via |-> "factory", descriptor |-> d,
                      size |-> a.size, fgcolor |-> a.fgcolor, spacing |-> a.spacing,
                      default_char |-> a.default_char]
          /\ font' = BitmapFontNew(d, a)
    /\ UNCHANGED <<res, scan, calls, tool>>

\* the texts and colours the loaded font is rendered with
LoadTexts == { <<>>, <<"A">>, <<"B", NL, "A">> }

LoadRenderColors == {NoColor, "red", "blue", "black"}

\* font.render(text, fgcolor=c)
RenderLoaded ==
    /\ font.status = "ok"
    /\ res.op = "none"
    /\ \E text \in LoadTexts, c \in LoadRenderColors :
          res' = [op |-> "render", text |-> text,
                  call |-> [form |-> "keyword", fgcolor |-> c, align |-> "LEFT"],
                  out |-> IF font.variant = "fixed"
                          THEN FixedRender(font, text, c, "LEFT")
                          ELSE FreeRender(font, text, c, "LEFT", "keyword")]
    /\ UNCHANGED <<ctor, font, scan, calls, tool>>

NextLoad == LoadFixed \/ LoadFree \/ LoadFactory \/ RenderLoaded \/ Return

SpecLoad == Init /\ [][NextLoad]_vars

(***************************************************************************)
(* What the claims speak of, stated on the state and apart from the        *)
(* operators above.                                                        *)
(***************************************************************************)
IsRender == res.op = "render"

\* render(text, align=a): no colour asked for
PlainRender == IsRender /\ res.call.fgcolor = NoColor

Mapped(c) == c \in DOMAIN font.characters

AllMapped(text) == \A i \in 1..Len(text) : Mapped(text[i])

\* the width a character costs: its glyph's, or that of default_char
CharWidth(c) ==
    IF Mapped(c) THEN font.characters[c].width
    ELSE font.characters[font.default_char].width

\* the positions of the line breaks of a text, and its number of rows
Breaks(text) == {i \in 1..Len(text) : text[i] = NL}

RowCount(text) == Cardinality(Breaks(text)) + 1

\* row k of a text runs from after its (k-1)-th line break to before its k-th
RowStart(text, k) ==
    IF k = 1 THEN 1
    ELSE 1 + CHOOSE i \in Breaks(text) : Cardinality({j \in Breaks(text) : j < i}) = k - 2

RowEnd(text, k) ==
    IF k = RowCount(text) THEN Len(text)
    ELSE (CHOOSE i \in Breaks(text) : Cardinality({j \in Breaks(text) : j < i}) = k - 1) - 1

\* sum over the characters lo..hi of a text of width plus horizontal spacing
RECURSIVE AdvanceSum(_, _, _)
AdvanceSum(text, lo, hi) ==
    IF lo > hi THEN 0
    ELSE AdvanceSum(text, lo, hi - 1) + CharWidth(text[hi]) + font.spacing[1]

RowWidths(text) ==
    {AdvanceSum(text, RowStart(text, k), RowEnd(text, k)) : k \in 1..RowCount(text)}

WidestRow(text) == CHOOSE w \in RowWidths(text) : \A v \in RowWidths(text) : v <= w

LineAdvance == font.font_height + font.spacing[2]

\* C1: render(text) returns the rectangle (0, 0, W, H) that get_rect(text)
\* returns, W the widest row after substitution and H the line advance times
\* the number of rows, for every text and every align.
C1_RenderRectIsGetRect ==
    PlainRender =>
        /\ res.out.status = "ok"
        /\ GetRect(font, res.text).status = "ok"
        /\ res.out.rect = GetRect(font, res.text).rect
        /\ res.out.rect = <<0, 0, WidestRow(res.text), LineAdvance * RowCount(res.text)>>

\* C2: a row of n mapped characters is as wide as the sum of its n glyph
\* widths plus n times the horizontal spacing, the last character included.
C2_SpacingPerCharacter ==
    (PlainRender /\ AllMapped(res.text)) =>
        /\ res.out.status = "ok"
        /\ res.out.rect[3] = AdvanceSum(res.text, 1, Len(res.text))

C2_Witness ==
    /\ PlainRender /\ AllMapped(res.text) /\ Len(res.text) = 2
    /\ font.spacing[1] > 0
    /\ res.out.status = "ok"
    /\ res.out.rect[3] = CharWidth(res.text[1]) + CharWidth(res.text[2]) + (2 * font.spacing[1])

\* C5: render("") succeeds with a rectangle of width 0 and of height one line
\* advance, font_height + spacing[1], for every font and spacing.
C5_EmptyText ==
    (PlainRender /\ res.text = <<>>) =>
        /\ res.out.status = "ok"
        /\ res.out.rect[3] = 0
        /\ res.out.rect[4] = font.font_height + font.spacing[2]

C5_Witness ==
    /\ PlainRender /\ res.text = <<>> /\ res.out.status = "ok"
    /\ font.spacing[2] > 0 /\ font.font_height > 0
    /\ res.out.rect = <<0, 0, 0, font.font_height + font.spacing[2]>>

\* render(text) of the font at hand, no colour and the default align
RenderOf(text) ==
    IF font.variant = "fixed" THEN FixedRender(font, text, NoColor, "LEFT")
    ELSE FreeRender(font, text, NoColor, "LEFT", "keyword")

\* a render of two mapped characters A, B that returned
TwoMapped ==
    /\ PlainRender /\ Len(res.text) = 2 /\ AllMapped(res.text)
    /\ res.out.status = "ok"

\* C3 as claimed: render(A+B).width = render(A).width + render(B).width +
\* spacing[0], for every horizontal spacing.
C3_AsClaimed ==
    TwoMapped =>
        res.out.rect[3] = RenderOf(<<res.text[1]>>).rect[3]
                          + RenderOf(<<res.text[2]>>).rect[3] + font.spacing[1]

\* C3, amended: render(A+B).width = render(A).width + render(B).width, each
\* width holding its own character's spacing; the claimed equation, with
\* spacing[0] added once more, holds exactly when spacing[0] = 0.
C3_WidthsAdd ==
    TwoMapped =>
        /\ res.out.rect[3] = RenderOf(<<res.text[1]>>).rect[3]
                             + RenderOf(<<res.text[2]>>).rect[3]
        /\ (res.out.rect[3] = RenderOf(<<res.text[1]>>).rect[3]
                              + RenderOf(<<res.text[2]>>).rect[3] + font.spacing[1])
              <=> (font.spacing[1] = 0)

C3_Witness ==
    /\ TwoMapped /\ res.text = <<"A", "B">>
    /\ font.spacing[1] > 0 /\ ctor.size # NoSize
    /\ res.out.rect[3] = CharWidth("A") + CharWidth("B") + (2 * font.spacing[1])

\* the font of the scenario: glyph "A" 10 wide, glyph "B" 12 wide, horizontal
\* spacing 1, and the text "AB" rendered
ScenarioAB ==
    /\ PlainRender /\ res.text = <<"A", "B">>
    /\ Mapped("A") /\ font.characters["A"].width = 10
    /\ Mapped("B") /\ font.characters["B"].width = 12
    /\ font.spacing[1] = 1

\* C4 as claimed: with glyphs of widths 10 and 12 and horizontal spacing 1,
\* render("AB") is 23 wide.
C4_AsClaimed == ScenarioAB => (res.out.status = "ok" /\ res.out.rect[3] = 23)

\* C4, amended: with glyphs of widths 10 and 12 and horizontal spacing 1,
\* render("AB") is 24 wide (10 + 1 + 12 + 1).
C4_Width24 == ScenarioAB => (res.out.status = "ok" /\ res.out.rect[3] = 24)

C4_Witness == ScenarioAB /\ res.out.status = "ok" /\ res.out.rect = <<0, 0, 24, LineAdvance>>

\* a text with every character that is neither a line break nor in the glyph
\* table replaced by default_char
Replaced(text) ==
    [i \in 1..Len(text) |->
        IF text[i] = NL \/ Mapped(text[i]) THEN text[i] ELSE font.default_char]

\* C6: render(t) and get_rect(t) return the rectangle they return for t with
\* every character absent from the glyph table replaced by default_char.
C6_SubstitutedTextSameRect ==
    /\ PlainRender =>
          /\ res.out.status = "ok"
          /\ RenderOf(Replaced(res.text)).status = "ok"
          /\ res.out.rect = RenderOf(Replaced(res.text)).rect
    /\ res.op = "get_rect" =>
          /\ res.out.status = "ok"
          /\ GetRect(font, Replaced(res.text)).status = "ok"
          /\ res.out.rect = GetRect(font, Replaced(res.text)).rect

\* C7: no call of render, get_rect or get_metrics fails over a character of
\* its text that is absent from the glyph table.
C7_UnmappedNeverFails ==
    (res.op \in {"render", "get_rect", "get_metrics"} /\ ~AllMapped(res.text))
        => res.out.status # "KeyError"

RECURSIVE SumAdvanceX(_)
SumAdvanceX(metrics) ==
    IF metrics = <<>> THEN 0 ELSE Head(metrics)[5] + SumAdvanceX(Tail(metrics))

\* C8: for either variant and any text, get_metrics(text) returns one tuple
\* per character with min_x = max_x = advance_x, and the advance_x sum to the
\* width of render(text) and of get_rect(text).
C8_MetricsSumToWidth ==
    res.op = "get_metrics" =>
        /\ res.out.status = "ok"
        /\ res.out.returns = "list"
        /\ Len(res.out.value) = Len(res.text)
        /\ \A i \in 1..Len(res.text) :
              /\ res.out.value[i][1] = res.out.value[i][5]
              /\ res.out.value[i][2] = res.out.value[i][5]
        /\ RenderOf(res.text).status = "ok"
        /\ SumAdvanceX(res.out.value) = RenderOf(res.text).rect[3]
        /\ GetRect(font, res.text).status = "ok"
        /\ SumAdvanceX(res.out.value) = GetRect(font, res.text).rect[3]

\* the natural height of a descriptor: the atlas image's height, or the
\* largest glyph height of the chars table
RECURSIVE TallestGlyph(_)
TallestGlyph(chars) ==
    IF chars = <<>> THEN 0
    ELSE IF Head(chars).height >= TallestGlyph(Tail(chars)) THEN Head(chars).height
    ELSE TallestGlyph(Tail(chars))

NaturalHeight ==
    IF ctor.variant = "fixed" THEN ctor.descriptor.img_height
    ELSE TallestGlyph(ctor.descriptor.chars)

\* C9: a font built with size = N has font_height = N, whatever the natural
\* height; built with size = None it has the natural height.
C9_FontHeightIsSize ==
    font.status = "ok" =>
        font.font_height = (IF ctor.size = NoSize THEN NaturalHeight ELSE ctor.size)

\* C10: a render call whose colour is the font's colour-key fails with the
\* assertion's contract violation, for either variant.
C10_ColorKeyRejected ==
    (IsRender /\ res.call.fgcolor = font.colorkey) => res.out.status = "AssertionError"

\* C11: for a fixed-height font, render(text, fgcolor=c) with c other than
\* the colour-key returns a buffer whose pixels copied from atlas pixels of
\* the descriptor's font_color have colour c, whether or not the font was
\* built with a foreground colour of its own.
C11_RenderColorsGlyphs ==
    (/\ IsRender /\ font.variant = "fixed"
     /\ res.call.fgcolor \notin {NoColor, font.colorkey}
     /\ res.out.status = "ok")
        => \A p \in Palette :
              p = font.font_color => res.out.pixels[p] = res.call.fgcolor

\* a constructor call has been made: by a class, or by the factory
Built == ctor.variant # "none"

ByFactory == Built /\ ctor.via = "factory"

ByClass == Built /\ ctor.via = "class"

\* C12: the factory BitmapFont(path, size, spacing, fgcolor, default_char)
\* returns a constructed fixed-height font for a descriptor with
\* character_order and a constructed free-dimension font for one with a
\* valid chars table instead, for every combination of the optional
\* arguments.
C12_FactoryBuildsEitherVariant ==
    (ByFactory /\ ctor.descriptor \in {GoodFixed, GoodFree}) =>
        /\ font.status = "ok"
        /\ font.variant = (IF "character_order" \in ctor.descriptor.keys
                           THEN "fixed" ELSE "free")

\* the descriptor file is missing; the atlas image it names is missing
DescriptorAbsent == Built /\ ctor.descriptor.file = "absent"

ImageAbsent ==
    /\ Built /\ ctor.descriptor.file = "present"
    /\ "font_image" \in ctor.descriptor.keys
    /\ ctor.descriptor.image = "absent"

\* C13: construction fails with FileNotFoundError when the descriptor file
\* is absent and also when the atlas image named by font_image is found
\* neither beside the descriptor nor in the working directory, for both
\* variants.
C13_MissingFilesAreNotFound ==
    (DescriptorAbsent \/ ImageAbsent) => font = Failed("FileNotFoundError")

\* the colour-key a descriptor declares: black when it declares none
DeclaredColorKey ==
    IF "colorkey" \in ctor.descriptor.keys THEN ctor.descriptor.colorkey ELSE "black"

\* BitmapFontFixedHeight(path, ...) on a descriptor with nothing at fault but,
\* maybe, its character_order
OrderAloneInDoubt ==
    /\ ByClass /\ ctor.variant = "fixed"
    /\ ctor.descriptor.file = "present" /\ ctor.descriptor.image = "present"
    /\ {"font_image", "font_color", "separator_color"} \subseteq ctor.descriptor.keys
    /\ ctor.descriptor.font_color # DeclaredColorKey

\* C14: fixed-height construction fails with ValueError exactly when
\* character_order is missing, is not a list, or is an empty list; every
\* non-empty list, one of a single entry included, passes the validation.
C14_NonEmptyOrderPasses ==
    OrderAloneInDoubt =>
        (font = Failed("ValueError")
            <=> \/ "character_order" \notin ctor.descriptor.keys
                \/ ctor.descriptor.order_kind # "list"
                \/ ctor.descriptor.character_order = <<>>)

\* a fixed-height font asked of a descriptor that lacks font_color alone
MissingFontColor ==
    /\ Built /\ ctor.variant = "fixed"
    /\ ctor.descriptor = Without(GoodFixed, "font_color")

\* C15: a fixed-height descriptor without font_color constructs when the
\* caller asks for no foreground colour; construction fails over the missing
\* font_color if and only if a foreground colour is asked for.
C15_FontColorOnlyForOverride ==
    MissingFontColor => (font.status = "error" <=> ctor.fgcolor # NoColor)

\* a fixed-height font asked of a descriptor file that exists
FixedAsked == Built /\ ctor.variant = "fixed" /\ ctor.descriptor.file = "present"

\* C16: every constructed fixed-height font has font_color # colorkey, the
\* colorkey being black when the descriptor omits it; a descriptor whose
\* font_color equals its declared or defaulted colorkey fails construction
\* with ValueError, and no font is returned.
C16_FontColorIsNotColorKey ==
    FixedAsked =>
        /\ font.status = "ok" =>
              /\ font.font_color = ctor.descriptor.font_color
              /\ font.colorkey = DeclaredColorKey
              /\ font.font_color # font.colorkey
        /\ ("font_color" \in ctor.descriptor.keys
              /\ ctor.descriptor.font_color = DeclaredColorKey)
              => font = Failed("ValueError")

C16_Witness ==
    /\ FixedAsked
    /\ "colorkey" \notin ctor.descriptor.keys
    /\ "font_color" \in ctor.descriptor.keys /\ ctor.descriptor.font_color = "black"
    /\ ctor.descriptor.image = "present" /\ "font_image" \in ctor.descriptor.keys
    /\ font = Failed("ValueError")

\* BitmapFontFreeDims(path, ...) on a descriptor with nothing at fault but,
\* maybe, its chars table
CharsAloneInDoubt ==
    /\ ByClass /\ ctor.variant = "free"
    /\ ctor.descriptor.file = "present" /\ ctor.descriptor.image = "present"
    /\ "font_image" \in ctor.descriptor.keys

\* C17: free-dimension construction fails with ValueError, the error the
\* constructor documents, when the chars table is missing, is empty, or is
\* not a mapping (a list or a scalar), and no font is returned.
C17_BadCharsIsValueError ==
    (/\ CharsAloneInDoubt
     /\ \/ "chars" \notin ctor.descriptor.keys
        \/ ctor.descriptor.chars = <<>>
        \/ ctor.descriptor.chars_kind # "dict")
        => font = Failed("ValueError")

\* the first character the descriptor defines
FirstDefined ==
    IF ctor.variant = "fixed" THEN ctor.descriptor.character_order[1][1]
    ELSE ctor.descriptor.chars[1].ch

\* C18: after every successful construction (either variant, any atlas, any
\* default_char argument, None included) default_char is a key of the glyph
\* table: the requested character when that is mapped, otherwise the first
\* defined character.
C18_DefaultCharIsMapped ==
    (Built /\ font.status = "ok") =>
        /\ font.default_char \in DOMAIN font.characters
        /\ font.default_char = (IF ctor.default_char \in DOMAIN font.characters
                                THEN ctor.default_char ELSE FirstDefined)

\* a font built from a descriptor that has a spacing field
BuiltWithSpacingField ==
    Built /\ font.status = "ok" /\ "spacing" \in ctor.descriptor.keys

\* C19: built with no spacing argument, a font has the (horizontal,
\* vertical) spacing of the descriptor's spacing field; a spacing argument
\* overrides the descriptor's.
C19_DescriptorSpacingIsDefault ==
    BuiltWithSpacingField =>
        font.spacing = (IF ctor.spacing = NoSpacing THEN ctor.descriptor.spacing
                        ELSE ctor.spacing)

\* the align token a render call ends up with: BitmapFontFreeDims.render
\* takes a colour given by position for it
AlignToken ==
    IF font.variant = "free" /\ res.call.fgcolor # NoColor THEN res.call.fgcolor
    ELSE res.call.align

\* the width of row k of a text
RowWidth(text, k) == AdvanceSum(text, RowStart(text, k), RowEnd(text, k))

\* a render call that returned a buffer
Rendered == IsRender /\ res.out.status = "ok"

\* C20: render places each row at horizontal offset 0 for 'LEFT', maxWidth -
\* rowWidth for 'RIGHT', floor((maxWidth - rowWidth) / 2) for 'CENTER' and
\* 'CENTRE', and 0 for any other token; every offset is >= 0 and offset +
\* rowWidth <= maxWidth, the width of the buffer, so that no row is clipped.
C20_RowsAlignedWithinBuffer ==
    Rendered =>
        LET maxWidth == WidestRow(res.text)
        IN  /\ Len(res.out.blits) = RowCount(res.text)
            /\ res.out.surface.width = maxWidth
            /\ \A k \in 1..RowCount(res.text) :
                  LET rowWidth == RowWidth(res.text, k)
                      offset   == res.out.blits[k][1]
                  IN  /\ AlignToken = "LEFT" => offset = 0
                      /\ AlignToken = "RIGHT" => offset = maxWidth - rowWidth
                      /\ AlignToken \in {"CENTER", "CENTRE"} =>
                            /\ 2 * offset <= maxWidth - rowWidth
                            /\ maxWidth - rowWidth < (2 * offset) + 2
                      /\ AlignToken \notin {"LEFT", "RIGHT", "CENTER", "CENTRE"} =>
                            offset = 0
                      /\ offset >= 0
                      /\ offset + rowWidth <= maxWidth

C20_Witness ==
    /\ Rendered /\ res.call.align = "CENTER" /\ res.call.fgcolor = NoColor
    /\ res.text = <<"A", NL, "?">>
    /\ RowWidth(res.text, 1) - RowWidth(res.text, 2) = 7
    /\ res.out.blits[1][1] = 0 /\ res.out.blits[2][1] = 3

(***************************************************************************)
(* The scan specification: the column scan of the fixed-height             *)
(* constructor followed one column at a time.                              *)
(***************************************************************************)
\* the atlases scanned: those of the text specification, and two whose
\* character_order names "A" twice (in two closed entries; in a closed entry
\* and in one the atlas has no separator for)
ScanDescriptors ==
    FixedDescriptors(AtlasHeight)
    \cup { FixedDescriptor(<<10, 12, 3>>, 2, AtlasHeight,
                           << <<"A", "a">>, <<"B", "A">>, <<"_">> >>),
           FixedDescriptor(<<10, 12>>, 2, AtlasHeight,
                           << <<"A">>, <<"B">>, <<"A", "_">> >>) }

\* the constructor reaches the loop over the columns of row 0
ScanBegin ==
    /\ scan.status = "none"
    /\ \E d \in ScanDescriptors, size \in TextSizes :
          scan' = [status |-> "running", descriptor |-> d, size |-> size,
                   locals |-> ScanStart]
    /\ UNCHANGED <<ctor, font, res, calls, tool>>

\* one iteration of the loop; an IndexError leaves the loop and the constructor
ScanColumn ==
    /\ scan.status = "running"
    /\ scan.locals.x < Len(scan.descriptor.img_row0)
    /\ LET d == scan.descriptor
           n == ScanStep(d.img_row0, d.separator_color, d.character_order,
                         scan.size, d.img_height, scan.locals)
       IN  scan' = [scan EXCEPT !.locals = n,
                                !.status = IF n.error # "none" THEN "error" ELSE @]
    /\ UNCHANGED <<ctor, font, res, calls, tool>>

\* range(width) is exhausted
ScanEnd ==
    /\ scan.status = "running"
    /\ scan.locals.x >= Len(scan.descriptor.img_row0)
    /\ scan' = [scan EXCEPT !.status = "done"]
    /\ UNCHANGED <<ctor, font, res, calls, tool>>

NextScan == ScanBegin \/ ScanColumn \/ ScanEnd

SpecScan == Init /\ [][NextScan]_vars

(***************************************************************************)
(* Row 0 of the atlas being scanned, read apart from the scan.             *)
(***************************************************************************)
Scanning == scan.status # "none"

Row0 == scan.descriptor.img_row0

Order == scan.descriptor.character_order

\* the columns (0-based) of row 0 that have the separator colour
SeparatorColumns == {p \in 0..(Len(Row0) - 1) : Row0[p + 1] = scan.descriptor.separator_color}

\* the column (0-based) of the i-th separator, i from 1
SeparatorAt(i) ==
    CHOOSE p \in SeparatorColumns : Cardinality({q \in SeparatorColumns : q < p}) = i - 1

\* the length of the run of non-separator columns that the i-th separator ends
RunLength(i) == IF i = 1 THEN SeparatorAt(1) ELSE SeparatorAt(i) - SeparatorAt(i - 1) - 1

RECURSIVE RunLengthSum(_)
RunLengthSum(n) == IF n = 0 THEN 0 ELSE RunLength(n) + RunLengthSum(n - 1)

\* the rectangle of the i-th run at natural size
RunRect(i) ==
    [x |-> SeparatorAt(i) - RunLength(i), y |-> 0, width |-> RunLength(i),
     height |-> scan.descriptor.img_height]

Entry(i) == {Order[i][j] : j \in 1..Len(Order[i])}

\* a scan at natural size that reached the end of row 0, the atlas having no
\* more separators than character_order has entries
NaturalScanDone ==
    /\ scan.status = "done"
    /\ scan.size = NoSize
    /\ Cardinality(SeparatorColumns) <= Len(Order)

\* C22 as stated: every character of every entry i < k has the rectangle of
\* the i-th run, and the characters of the entries from k on are unmapped.
C22_AsClaimed ==
    NaturalScanDone =>
        LET k == Cardinality(SeparatorColumns)
        IN  /\ \A i \in 1..k : \A c \in Entry(i) :
                  /\ c \in DOMAIN scan.locals.characters
                  /\ scan.locals.characters[c] = RunRect(i)
            /\ \A i \in (k + 1)..Len(Order) : \A c \in Entry(i) :
                  c \notin DOMAIN scan.locals.characters

\* C22: for a fixed-height atlas scanned at natural size whose row 0 holds k
\* separator columns, k not above the length of character_order, a
\* character is mapped exactly when it occurs in an entry of index < k, and
\* it maps to the rectangle of the run that ends at the separator of the
\* last such entry: x the run's first column, y 0, width the run's length (0
\* between adjacent separators), height the atlas height.
C22_LastEntryOwnsCharacter ==
    NaturalScanDone =>
        LET k == Cardinality(SeparatorColumns)
        IN  /\ DOMAIN scan.locals.characters = UNION {Entry(i) : i \in 1..k}
            /\ \A i \in 1..k : \A c \in Entry(i) :
                  (\A j \in (i + 1)..k : c \notin Entry(j)) =>
                      scan.locals.characters[c] = RunRect(i)

C22_Witness ==
    /\ NaturalScanDone
    /\ Cardinality(SeparatorColumns) = 2
    /\ RunLength(1) = 0 /\ RunLength(2) = 12
    /\ scan.locals.characters["A"] = [x |-> 0, y |-> 0, width |-> 0, height |-> AtlasHeight]
    /\ scan.locals.characters["B"] = [x |-> 1, y |-> 0, width |-> 12, height |-> AtlasHeight]
    /\ "_" \notin DOMAIN scan.locals.characters

\* C23: when row 0 of a fixed-height atlas holds more separator columns than
\* character_order has entries, construction still succeeds: the extra
\* separators are passed over without an error and the glyphs assigned so
\* far are kept.
C23_ExtraSeparatorsIgnored ==
    (Scanning /\ Cardinality(SeparatorColumns) > Len(Order)) =>
        /\ scan.status # "error"
        /\ scan.status = "done" =>
              DOMAIN scan.locals.characters = UNION {Entry(i) : i \in 1..Len(Order)}

\* the separators among the columns scanned so far
SeparatorsScanned == {p \in SeparatorColumns : p < scan.locals.x}

\* C29: at every step of the column scan the number of columns scanned so
\* far is the sum of the natural widths of the glyphs closed so far, plus
\* the number of glyphs closed, plus the running width; hence, when the scan
\* is through, there are as many glyph slots as separator columns in row 0,
\* and the columns after the last separator belong to no glyph.
C29_ScanAccountsForEveryColumn ==
    Scanning =>
        LET closed == Cardinality(SeparatorsScanned)
        IN  /\ scan.locals.count = closed
            /\ scan.locals.x = RunLengthSum(closed) + closed + scan.locals.width
            /\ scan.status = "done" =>
                  /\ scan.locals.count = Cardinality(SeparatorColumns)
                  /\ scan.locals.width = Len(Row0) - (RunLengthSum(closed) + closed)
                  /\ scan.size = NoSize =>
                        \A c \in DOMAIN scan.locals.characters :
                           \E i \in 1..closed :
                              /\ scan.locals.characters[c].x = SeparatorAt(i) - RunLength(i)
                              /\ scan.locals.characters[c].x
                                    + scan.locals.characters[c].width = SeparatorAt(i)

C29_Witness ==
    /\ scan.status = "done"
    /\ scan.size = NoSize
    /\ Len(Row0) = 30
    /\ scan.locals.count = 3
    /\ RunLengthSum(3) = 25
    /\ scan.locals.width = 2

\* a fixed-height font built with a size
FixedSized == ctor.variant = "fixed" /\ font.status = "ok" /\ ctor.size # NoSize

\* the glyph slot (character_order entry, from 1) of a mapped character
SlotsOf(c) ==
    {i \in 1..Len(ctor.descriptor.character_order) :
        \E j \in 1..Len(ctor.descriptor.character_order[i]) :
            ctor.descriptor.character_order[i][j] = c}

\* C28: for a fixed-height font built with any positive size, every glyph
\* rectangle has x >= 0 and x + width <= the width of the scaled atlas
\* image, its height is font_height, which is the height of the scaled
\* atlas image, and the rectangles of two different glyph slots never
\* overlap horizontally.
C28_ScaledGlyphsInsideAtlas ==
    FixedSized =>
        /\ font.font_height = font.img_height
        /\ \A c \in DOMAIN font.characters :
              LET g == font.characters[c]
              IN  /\ g.x >= 0
                  /\ g.width >= 0
                  /\ g.x + g.width <= font.img_width
                  /\ g.y = 0
                  /\ g.height = font.font_height
        /\ \A c, e \in DOMAIN font.characters :
              (SlotsOf(c) \cap SlotsOf(e) = {}) =>
                  \/ font.characters[c].x + font.characters[c].width <= font.characters[e].x
                  \/ font.characters[e].x + font.characters[e].width <= font.characters[c].x

C28_Witness ==
    /\ FixedSized
    /\ ctor.size = 15 /\ ctor.descriptor.img_height = 11
    /\ Len(ctor.descriptor.img_row0) = 17
    /\ font.img_width = 23
    /\ font.characters["A"].x = 0 /\ font.characters["A"].width = 9
    /\ font.characters["B"].x = 10 /\ font.characters["B"].width = 0
    /\ font.characters["_"].x = 12 /\ font.characters["_"].width = 6
    /\ font.font_height = 14

\* a free-dimension font that was built
FreeBuilt == ctor.variant = "free" /\ font.status = "ok"

\* the chars entry of a character
CharsEntry(c) ==
    ctor.descriptor.chars[CHOOSE i \in 1..Len(ctor.descriptor.chars) :
                             ctor.descriptor.chars[i].ch = c]

\* C25: a free-dimension font built with size = None has the descriptor's
\* chars table as its glyph table, entry for entry (x, y, width, height),
\* and the maximum height of the entries as font_height; for any size no
\* glyph's scaled height exceeds font_height, and font_height ==
\* characters[c]['height'] holds exactly for the characters of maximal
\* natural height.
C25_FreeTableAndHeight ==
    FreeBuilt =>
        /\ DOMAIN font.characters =
              {ctor.descriptor.chars[i].ch : i \in 1..Len(ctor.descriptor.chars)}
        /\ ctor.size = NoSize =>
              /\ font.font_height = NaturalHeight
              /\ \A c \in DOMAIN font.characters :
                    font.characters[c] =
                       [x |-> CharsEntry(c).x, y |-> CharsEntry(c).y,
                        width |-> CharsEntry(c).width, height |-> CharsEntry(c).height]
        /\ \A c \in DOMAIN font.characters :
              /\ font.characters[c].height <= font.font_height
              /\ (font.characters[c].height = font.font_height)
                    <=> (CharsEntry(c).height = NaturalHeight)

(***************************************************************************)
(* The extractor tool: the grid cell resolution, the grid recalculation at *)
(* the top of the main loop, and the PageUp / PageDown keys.               *)
(***************************************************************************)
\* the resolution of a grid cell on the image when the tool starts
IMG_CELL_RES_PX == 16

\* grid_cnt = None
NoGrid == <<>>

\* the images the tool is started on, (width, height): at least 16 pixels
\* each way
ToolImages == (16..MaxImage) \X {16, 2 * MaxImage}

\* the tool starts on an image and reaches its main loop
ToolStart ==
    /\ tool.status = "none"
    /\ \E img \in ToolImages :
          tool' = [status              |-> "top",
                   image               |-> img,
                   cell_res            |-> IMG_CELL_RES_PX,
                   is_cell_res_changed |-> TRUE,
                   grid_cnt            |-> NoGrid]
    /\ UNCHANGED <<ctor, font, res, scan, calls>>

\* the top of the loop: if is_cell_res_changed, grid_cnt is recalculated and
\* get_screen_cell_res_px divides the screen's width and height by it; a
\* division by zero raises ZeroDivisionError and ends the tool
ToolRecalculate ==
    /\ tool.status = "top"
    /\ IF tool.is_cell_res_changed
       THEN LET grid_cnt == <<tool.image[1] \div tool.cell_res,
                              tool.image[2] \div tool.cell_res>>
            IN  tool' = IF grid_cnt[1] = 0 \/ grid_cnt[2] = 0
                        THEN [tool EXCEPT !.grid_cnt = grid_cnt,
                                          !.status = "ZeroDivisionError"]
                        ELSE [tool EXCEPT !.grid_cnt = grid_cnt,
                                          !.is_cell_res_changed = FALSE,
                                          !.status = "events"]
       ELSE tool' = [tool EXCEPT !.status = "events"]
    /\ UNCHANGED <<ctor, font, res, scan, calls>>

\* K_PAGEDOWN: int(IMG_CELL_RES_PX / 2) if IMG_CELL_RES_PX > 2
ToolPageDown ==
    /\ tool.status = "events"
    /\ tool' = [tool EXCEPT !.cell_res = IF @ > 2 THEN @ \div 2 ELSE @,
                            !.is_cell_res_changed = TRUE]
    /\ UNCHANGED <<ctor, font, res, scan, calls>>

\* K_PAGEUP: int(IMG_CELL_RES_PX * 2) if IMG_CELL_RES_PX < 256
ToolPageUp ==
    /\ tool.status = "events"
    /\ tool' = [tool EXCEPT !.cell_res = IF @ < 256 THEN @ * 2 ELSE @,
                            !.is_cell_res_changed = TRUE]
    /\ UNCHANGED <<ctor, font, res, scan, calls>>

\* the events of this pass are processed; the loop starts over
ToolEndEvents ==
    /\ tool.status = "events"
    /\ tool' = [tool EXCEPT !.status = "top"]
    /\ UNCHANGED <<ctor, font, res, scan, calls>>

NextTool == ToolStart \/ ToolRecalculate \/ ToolPageDown \/ ToolPageUp \/ ToolEndEvents

SpecTool == Init /\ [][NextTool]_vars

\* C30: in the extractor tool, for an image at least 16 pixels wide and high
\* and after any sequence of PageUp / PageDown key events, the grid cell
\* resolution is a power of two within [2, 256] and the grid cell count is
\* at least 1 in both dimensions, so that the screen-cell-resolution
\* computation never divides by zero.
C30_GridNeverEmpty ==
    tool.status # "none" =>
        /\ tool.cell_res \in {2, 4, 8, 16, 32, 64, 128, 256}
        /\ tool.grid_cnt # NoGrid => (tool.grid_cnt[1] >= 1 /\ tool.grid_cnt[2] >= 1)
        /\ tool.status # "ZeroDivisionError"

(***************************************************************************)
(* Surfaces pixel by pixel.  A surface has a size, a colour-key (or none)  *)
(* and a colour for each of its pixels (x, y), x and y from 0.             *)
(***************************************************************************)
Points(w, h) == (0..(w - 1)) \X (0..(h - 1))

\* pygame.Surface((w, h)): black, no colour-key
NewSurface(w, h) ==
    [width |-> w, height |-> h, colorkey |-> NoColor,
     px |-> [p \in Points(w, h) |-> "black"]]

\* surf.fill(color)
Fill(surf, color) == [surf EXCEPT !.px = [p \in DOMAIN surf.px |-> color]]

\* surf.get_rect()
Whole(surf) == [x |-> 0, y |-> 0, width |-> surf.width, height |-> surf.height]

\* dest.blit(source, at, area): the pixels of area (a rectangle of source)
\* land on dest from at on, clipped to both surfaces; a pixel of source that
\* has source's colour-key is not copied
Blit(dest, source, at, area) ==
    [dest EXCEPT !.px =
        [p \in DOMAIN dest.px |->
            LET q == <<(p[1] - at[1]) + area.x, (p[2] - at[2]) + area.y>>
            IN  IF /\ q[1] >= area.x /\ q[1] < area.x + area.width
                   /\ q[2] >= area.y /\ q[2] < area.y + area.height
                   /\ q \in DOMAIN source.px
                   /\ source.px[q] # source.colorkey
                THEN source.px[q]
                ELSE dest.px[p]]]

\* a color_swap that leaves the colour-key of surf alone
ColorSwapSurfaceUnkeyed(surf, old_color, new_color) ==
    LET img_copy == Fill(NewSurface(surf.width, surf.height), new_color)
    IN  [image |-> Blit(img_copy, surf, <<0, 0>>, Whole(surf)), surf |-> surf]

\* color_swap(surf, old_color, new_color): the image returned, and surf as
\* the call leaves it
ColorSwapSurface(surf, old_color, new_color) ==
    LET img_copy == Fill(NewSurface(surf.width, surf.height), new_color)
        keyed    == [surf EXCEPT !.colorkey = old_color]
    IN  [image |-> Blit(img_copy, keyed, <<0, 0>>, Whole(keyed)), surf |-> keyed]

\* the picture of an atlas away from row 0 of a fixed-height atlas file: the
\* glyphs' colour, the background and a third colour in turn
Ink(p) == <<"white", "black", "blue">>[((p[1] + (2 * p[2])) % 3) + 1]

\* self.font_img of the font f built from descriptor d: its pixels have the
\* colours f.font_img gives to those of the picture
AtlasSurface(f, d, size) ==
    [width |-> f.img_width, height |-> f.img_height, colorkey |-> f.img_colorkey,
     px |-> [p \in Points(f.img_width, f.img_height) |->
                f.font_img[IF d.variant = "fixed" /\ size = NoSize /\ p[2] = 0
                           THEN d.img_row0[p[1] + 1]
                           ELSE Ink(p)]]]

\* a glyph blitted one row lower
BlitGlyphLower(f, atlas, row_surf, char, x_offset) ==
    Blit(row_surf, atlas, <<x_offset, 1>>, f.characters[char])

\* row_surf.blit(self.font_img, (x_offset, 0), char_rect)
BlitGlyph(f, atlas, row_surf, char, x_offset) ==
    Blit(row_surf, atlas, <<x_offset, 0>>, f.characters[char])

\* the loop of _render_row over the characters of text, blitted at offsets
RECURSIVE BlitGlyphs(_, _, _, _, _)
BlitGlyphs(f, atlas, row_surf, text, offsets) ==
    IF text = <<>> THEN row_surf
    ELSE BlitGlyphs(f, atlas, BlitGlyph(f, atlas, row_surf, Head(text), Head(offsets)),
                    Tail(text), Tail(offsets))

\* _render_row: the row surface
RenderRowSurface(f, atlas, row_text) ==
    LET text == Substitute(f, row_text)
    IN  IF HasUnmapped(f, text) THEN Raised("KeyError")
        ELSE [status |-> "ok",
              surf   |-> BlitGlyphs(f, atlas,
                                    Fill(NewSurface(GetTextWidth(f, text), GetTextHeight(f)),
                                         f.colorkey),
                                    text, BlitOffsets(f, text, 0))]

\* a pass of the second loop that swaps the colour before it blits the row
ComposeStepSwapFirst(f, final_surface, row_surface, i, fgcolor, align, max_width) ==
    LET swapped == IF fgcolor # NoColor
                   THEN ColorSwapSurface(final_surface, f.font_color, fgcolor).image
                   ELSE final_surface
    IN  Blit(swapped, row_surface,
             <<XAlign(align, max_width, row_surface.width),
               i * (GetTextHeight(f) + f.spacing[2])>>,
             Whole(row_surface))

\* one pass of the second loop of render, for row i (from 0): the row is
\* blitted, and with an fgcolor final_surface becomes what color_swap returns
ComposeStep(f, final_surface, row_surface, i, fgcolor, align, max_width) ==
    LET blitted == Blit(final_surface, row_surface,
                        <<XAlign(align, max_width, row_surface.width),
                          i * (GetTextHeight(f) + f.spacing[2])>>,
                        Whole(row_surface))
    IN  IF fgcolor # NoColor
        THEN ColorSwapSurface(blitted, f.font_color, fgcolor).image
        ELSE blitted

RECURSIVE ComposeLoop(_, _, _, _, _, _, _)
ComposeLoop(f, final_surface, rows_surfaces, i, fgcolor, align, max_width) ==
    IF i >= Len(rows_surfaces) THEN final_surface
    ELSE ComposeLoop(f, ComposeStep(f, final_surface, rows_surfaces[i + 1], i,
                                    fgcolor, align, max_width),
                     rows_surfaces, i + 1, fgcolor, align, max_width)

\* the body of render after the assertion: the row surfaces, and the final
\* surface with its colour-key set
RenderSurface(f, atlas, text, fgcolor, align) ==
    LET rows      == Split(text)
        row_surfs == [k \in 1..Len(rows) |-> RenderRowSurface(f, atlas, rows[k])]
    IN  IF \E k \in 1..Len(rows) : row_surfs[k].status # "ok" THEN Raised("KeyError")
        ELSE LET rows_surfaces == [k \in 1..Len(rows) |-> row_surfs[k].surf]
                 max_width     == MaxWidthLoop(rows_surfaces, 0)
                 height        == (GetTextHeight(f) + f.spacing[2]) * Len(rows_surfaces)
                 final_surface == ComposeLoop(f, Fill(NewSurface(max_width, height),
                                                      f.colorkey),
                                              rows_surfaces, 0, fgcolor, align, max_width)
             IN  [status  |-> "ok",
                  rows    |-> rows_surfaces,
                  surface |-> [final_surface EXCEPT !.colorkey = f.colorkey],
                  rect    |-> <<0, 0, max_width, height>>]

\* BitmapFontFixedHeight.render(text, fgcolor, align), pixel by pixel
FixedRenderSurface(f, atlas, text, fgcolor, align) ==
    IF fgcolor = f.colorkey THEN Raised("AssertionError")
    ELSE RenderSurface(f, atlas, text, fgcolor, align)

\* BitmapFontFreeDims.render(text, align), pixel by pixel
FreeRenderSurface(f, atlas, text, align) == RenderSurface(f, atlas, text, NoColor, align)

(***************************************************************************)
(* The pixel specification: small fonts of either class, rendered pixel by *)
(* pixel.                                                                  *)
(***************************************************************************)
\* a fixed-height atlas 7 wide and 2 high: glyphs "A" (also "a") of width 2,
\* "B" of width 0 and "_" of width 1
PixelFixed == FixedDescriptor(<<2, 0, 1>>, 1, 2, << <<"A", "a">>, <<"B">>, <<"_">> >>)

\* a free-dimension atlas 4 wide and 3 high with glyphs of three heights
PixelFree ==
    [FreeDescriptor(<< Glyph("A", 0, 0, 2, 3), Glyph("B", 2, 1, 1, 2),
                       Glyph("_", 3, 0, 0, 1) >>, 3) EXCEPT !.img_width = 4]

PixelArgs ==
    [size         : {NoSize, 3},
     fgcolor      : {NoColor, "red"},
     spacing      : {<<0, 0>>, <<MaxSpacing, MaxSpacing>>},
     default_char : {"_"}]

\* font = BitmapFontFixedHeight(path, ...)
BuildFixedPixels ==
    /\ ctor.variant = "none"
    /\ \E a \in PixelArgs :
          /\ ctor' = [variant |-> "fixed", via |-> "class", descriptor |-> PixelFixed,
                      size |-> a.size, fgcolor |-> a.fgcolor, spacing |-> a.spacing,
                      default_char |-> a.default_char]
          /\ font' = FixedHeightCall(PixelFixed, a)
    /\ UNCHANGED <<res, scan, calls, tool>>

\* font = BitmapFontFreeDims(path, ...), which takes no fgcolor
BuildFreePixels ==
    /\ ctor.variant = "none"
    /\ \E a \in PixelArgs :
          /\ a.fgcolor = NoColor
          /\ ctor' = [variant |-> "free", via |-> "class", descriptor |-> PixelFree,
                      size |-> a.size, fgcolor |-> a.fgcolor, spacing |-> a.spacing,
                      default_char |-> a.default_char]
          /\ font' = FreeDimsCall(PixelFree, a)
    /\ UNCHANGED <<res, scan, calls, tool>>

\* texts of one to three rows, with unmapped characters and empty rows
PixelTexts ==
    { <<>>, <<"A">>, <<"A", "B", "_">>, <<"?", "A">>, <<"A", "_", NL, "_">>,
      <<"_", NL, NL, "A", "a">> }

PixelColors == {NoColor, "red", "blue"}

PixelAligns == {"LEFT", "RIGHT", "CENTER"}

\* font.render(text, fgcolor=c, align=a); BitmapFontFreeDims.render has no
\* fgcolor parameter
RenderPixels ==
    /\ font.status = "ok"
    /\ res.op = "none"
    /\ \E text \in PixelTexts, c \in PixelColors, a \in PixelAligns :
          res' = [op |-> "render", text |-> text,
                  call |-> [form |-> "keyword", fgcolor |-> c, align |-> a],
                  out |-> IF font.variant = "fixed"
                          THEN FixedRenderSurface(font,
                                   AtlasSurface(font, ctor.descriptor, ctor.size),
                                   text, c, a)
                          ELSE IF c # NoColor THEN Raised("TypeError")
                          ELSE FreeRenderSurface(font,
                                   AtlasSurface(font, ctor.descriptor, ctor.size),
                                   text, a)]
    /\ UNCHANGED <<ctor, font, scan, calls, tool>>

NextPixels == BuildFixedPixels \/ BuildFreePixels \/ RenderPixels \/ Return

SpecPixels == Init /\ [][NextPixels]_vars

(***************************************************************************)
(* The colour-swap specification: color_swap applied to small images.      *)
(***************************************************************************)
\* the images 2 wide and 2 high of three colours, with a colour-key or none
SwapSurfaces ==
    { [width |-> 2, height |-> 2, colorkey |-> k, px |-> px] :
        k \in {NoColor, "black"}, px \in [Points(2, 2) -> {"white", "black", "blue"}] }

\* color_swap(surf, old_color, new_color)
ColorSwapCall ==
    /\ res.op = "none"
    /\ \E surf \in SwapSurfaces, old_color \in {"white", "black", "red"},
          new_color \in {"red", "white", "black"} :
          res' = [op |-> "color_swap", surf |-> surf, old_color |-> old_color,
                  new_color |-> new_color,
                  out |-> ColorSwapSurface(surf, old_color, new_color)]
    /\ UNCHANGED <<ctor, font, scan, calls, tool>>

NextSwap == ColorSwapCall \/ Return

SpecSwap == Init /\ [][NextSwap]_vars

\* C26: color_swap(surf, old_color, new_color) returns a new image of the
\* size of surf in which a pixel has new_color where the pixel of surf has
\* old_color and the colour of the pixel of surf everywhere else; the pixels
\* of surf are not changed.
C26_ColorSwapContract ==
    res.op = "color_swap" =>
        /\ res.out.image.width = res.surf.width
        /\ res.out.image.height = res.surf.height
        /\ DOMAIN res.out.image.px = Points(res.surf.width, res.surf.height)
        /\ \A p \in Points(res.surf.width, res.surf.height) :
              res.out.image.px[p] = (IF res.surf.px[p] = res.old_color
                                     THEN res.new_color ELSE res.surf.px[p])
        /\ res.out.surf.px = res.surf.px
        /\ res.out.surf.width = res.surf.width
        /\ res.out.surf.height = res.surf.height

C26_Witness ==
    /\ res.op = "color_swap"
    /\ res.old_color = "white" /\ res.new_color = "red"
    /\ res.surf.colorkey = "black"
    /\ res.surf.px[<<0, 0>>] = "white" /\ res.surf.px[<<1, 0>>] = "black"
    /\ res.surf.px[<<0, 1>>] = "blue" /\ res.surf.px[<<1, 1>>] = "white"
    /\ res.out.image.px[<<0, 0>>] = "red" /\ res.out.image.px[<<1, 0>>] = "black"
    /\ res.out.image.px[<<0, 1>>] = "blue" /\ res.out.image.px[<<1, 1>>] = "red"

\* a render call that returned row buffers and a final buffer
RenderedPixels == IsRender /\ res.out.status = "ok"

\* the atlas of the font at hand
Atlas == AtlasSurface(font, ctor.descriptor, ctor.size)

\* the glyph of the character at position i of a text, after substitution
GlyphAt(text, i) ==
    font.characters[IF Mapped(text[i]) THEN text[i] ELSE font.default_char]

\* the pixels (dx, dy) of a glyph, from its own corner
GlyphPoints(g) == Points(g.width, g.height)

\* C24: in the row buffer built for a row c_0..c_{n-1} (after substitution,
\* spacing[0] >= 0) the glyph of c_i occupies the columns [o_i, o_i + w_i)
\* from vertical offset 0, o_i being the sum over j < i of (w_j +
\* spacing[0]); those pixels are the pixels of the glyph's atlas rectangle,
\* every other pixel of the buffer has the background colour, glyphs of
\* different positions never overlap, and the last glyph ends inside the
\* buffer width.
C24_RowBufferLayout ==
    RenderedPixels =>
        /\ Len(res.out.rows) = RowCount(res.text)
        /\ \A k \in 1..RowCount(res.text) :
              LET buf  == res.out.rows[k]
                  lo   == RowStart(res.text, k)
                  hi   == RowEnd(res.text, k)
                  o(i) == AdvanceSum(res.text, lo, i - 1)
                  w(i) == GlyphAt(res.text, i).width
                  atlas == Atlas
              IN  /\ buf.width = AdvanceSum(res.text, lo, hi)
                  /\ buf.height = font.font_height
                  /\ DOMAIN buf.px = Points(buf.width, buf.height)
                  /\ \A i \in lo..hi :
                        LET g == GlyphAt(res.text, i)
                        IN  \A d \in GlyphPoints(g) :
                               /\ <<o(i) + d[1], d[2]>> \in DOMAIN buf.px
                               /\ buf.px[<<o(i) + d[1], d[2]>>]
                                     = atlas.px[<<g.x + d[1], g.y + d[2]>>]
                  /\ \A p \in DOMAIN buf.px :
                        (\A i \in lo..hi :
                            ~(/\ o(i) <= p[1] /\ p[1] < o(i) + w(i)
                              /\ p[2] < GlyphAt(res.text, i).height))
                        => buf.px[p] = font.colorkey
                  /\ \A i, j \in lo..hi : i < j => o(i) + w(i) <= o(j)
                  /\ lo <= hi => o(hi) + w(hi) <= buf.width

C24_Witness ==
    /\ RenderedPixels
    /\ font.variant = "free" /\ ctor.size = NoSize /\ font.spacing[1] = 1
    /\ res.text = <<"A", "B", "_">>
    /\ res.out.rows[1].width = 6 /\ res.out.rows[1].height = 3
    /\ res.out.rows[1].px[<<0, 0>>] = "white" /\ res.out.rows[1].px[<<1, 1>>] = "white"
    /\ res.out.rows[1].px[<<2, 0>>] = "black"
    /\ Atlas.px[<<2, 2>>] = "white" /\ res.out.rows[1].px[<<3, 1>>] = "white"
    /\ res.out.rows[1].px[<<3, 2>>] = "black"
    /\ res.out.rows[1].px[<<5, 1>>] = "black"

\* a fixed-height render with a foreground override that returned
RecolouredPixels ==
    RenderedPixels /\ font.variant = "fixed" /\ res.call.fgcolor # NoColor

\* the finished composite of the call at hand without any substitution
Composite ==
    FixedRenderSurface(font, Atlas, res.text, NoColor, res.call.align).surface

\* C27: in a fixed-height render with a foreground override, the colour
\* substitution executed inside the row loop (once per row, on the partly
\* composed buffer) gives, for any number of rows and any alignment, the
\* pixels that one substitution applied to the finished composite gives, and
\* the returned buffer's colour-key is the font's background colour-key.
C27_LoopSwapIsSingleSwap ==
    RecolouredPixels =>
        LET finished == Composite
        IN  /\ res.out.surface.width = finished.width
            /\ res.out.surface.height = finished.height
            /\ DOMAIN res.out.surface.px = DOMAIN finished.px
            /\ \A p \in DOMAIN finished.px :
                  res.out.surface.px[p] = (IF finished.px[p] = font.font_color
                                           THEN res.call.fgcolor ELSE finished.px[p])
            /\ res.out.surface.colorkey = font.colorkey

C27_Witness ==
    /\ RecolouredPixels
    /\ ctor.fgcolor = NoColor /\ ctor.size = NoSize /\ font.spacing = <<1, 1>>
    /\ res.call.fgcolor = "red" /\ res.call.align = "RIGHT"
    /\ res.text = <<"A", "_", NL, "_">>
    /\ Composite.px[<<1, 1>>] = "white" /\ res.out.surface.px[<<1, 1>>] = "red"
    /\ Composite.px[<<3, 4>>] = "white" /\ res.out.surface.px[<<3, 4>>] = "red"
    /\ res.out.surface.px[<<0, 3>>] = "black"
    /\ res.out.surface.colorkey = "black"

(***************************************************************************)
(* The shared-font specification: two callers call render, get_rect and    *)
(* get_metrics on one font, and their calls advance in any interleaving.   *)
(* A render call advances row by row through its first loop and then       *)
(* through the rest of its body.                                           *)
(***************************************************************************)
BuildSharedFixed == NewFixed({GoodFixed}, {NoSize}, {<<MaxSpacing, MaxSpacing>>})

BuildSharedFree == NewFree({GoodFree}, {NoSize}, {<<MaxSpacing, MaxSpacing>>})

SharedTexts == { <<"A">>, <<"B", NL, "?">> }

\* the calls a caller makes: render(text, fgcolor=c, align=a), get_rect(text)
\* and get_metrics(text)
SharedCalls ==
    { [pc |-> "called", op |-> "render", text |-> t, fgcolor |-> c, align |-> a] :
        t \in SharedTexts, c \in {NoColor, "red", "black"}, a \in {"LEFT", "RIGHT"} }
    \cup { [pc |-> "called", op |-> o, text |-> t, fgcolor |-> NoColor, align |-> "LEFT"] :
             o \in {"get_rect", "get_metrics"}, t \in SharedTexts }

\* a call that has ended, with its result or exception
Done(call, out) ==
    [pc |-> "done", op |-> call.op, text |-> call.text, fgcolor |-> call.fgcolor,
     align |-> call.align, out |-> out]

\* a step that leaves the colour-key of font_color on the atlas when the
\* colour is substituted
FontAfterStepKeyed(f, call) ==
    IF call.pc = "rows" /\ call.rows = <<>> /\ call.fgcolor # NoColor
    THEN [f EXCEPT !.img_colorkey = f.font_color]
    ELSE f

\* the font after a step of a call: render, _render_row, get_rect and
\* get_metrics assign no attribute of self, the surfaces they fill, blit to
\* and hand to color_swap are their own, and self.font_img is only blitted from
FontAfterStep(f, call) == f

\* the next step of a call on font f
CallStep(f, call) ==
    IF call.pc = "called"
    THEN IF call.op = "get_rect" THEN Done(call, GetRect(f, call.text))
         ELSE IF call.op = "get_metrics" THEN Done(call, GetMetrics(f, call.text))
         ELSE IF f.variant = "free" /\ call.fgcolor # NoColor
              THEN Done(call, Raised("TypeError"))
         ELSE IF f.variant = "fixed" /\ call.fgcolor = f.colorkey
              THEN Done(call, Raised("AssertionError"))
         ELSE [pc |-> "rows", op |-> call.op, text |-> call.text,
               fgcolor |-> call.fgcolor, align |-> call.align,
               rows |-> Split(call.text), row_surfs |-> <<>>]
    ELSE IF call.rows # <<>>
         THEN LET row_surf == RenderRow(f, Head(call.rows))
              IN  IF row_surf.status # "ok"
                  THEN Done(call, Raised("KeyError"))
                  ELSE [call EXCEPT !.rows = Tail(@),
                                    !.row_surfs = Append(@, row_surf)]
         ELSE Done(call, Recoloured(f, Compose(f, call.row_surfs, call.align),
                                    call.fgcolor))

\* caller c calls a method of the font
SharedCall(c) ==
    /\ font.status = "ok"
    /\ calls[c].pc = "idle"
    /\ \E call \in SharedCalls : calls' = [calls EXCEPT ![c] = call]
    /\ UNCHANGED <<ctor, font, res, scan, tool>>

\* the call of caller c advances by one step
SharedStep(c) ==
    /\ calls[c].pc \in {"called", "rows"}
    /\ calls' = [calls EXCEPT ![c] = CallStep(font, calls[c])]
    /\ font' = FontAfterStep(font, calls[c])
    /\ UNCHANGED <<ctor, res, scan, tool>>

\* caller c takes the result (or catches the exception) of its call
SharedReturn(c) ==
    /\ calls[c].pc = "done"
    /\ calls' = [calls EXCEPT ![c] = [pc |-> "idle"]]
    /\ UNCHANGED <<ctor, font, res, scan, tool>>

NextShared ==
    \/ BuildSharedFixed
    \/ BuildSharedFree
    \/ \E c \in Callers : SharedCall(c)
    \/ \E c \in Callers : SharedStep(c)
    \/ \E c \in Callers : SharedReturn(c)

SpecShared == Init /\ [][NextShared]_vars

\* the font as its constructor left it
Constructed ==
    IF ctor.variant = "fixed"
    THEN FixedInit(ctor.descriptor, ctor.size, NoColor, ctor.spacing, ctor.default_char)
    ELSE FreeInit(ctor.descriptor, ctor.size, ctor.spacing, ctor.default_char)

\* what a call returns when it runs alone on the font
Alone(call) ==
    IF call.op = "get_rect" THEN GetRect(font, call.text)
    ELSE IF call.op = "get_metrics" THEN GetMetrics(font, call.text)
    ELSE IF font.variant = "fixed"
         THEN FixedRender(font, call.text, call.fgcolor, call.align)
         ELSE FreeRender(font, call.text, call.fgcolor, call.align, "keyword")

=============================================================================
